---- MODULE Spec2Model ----
(***************************************************************************)
(* Model of proxy_manager.py: the ProxyManager class, its three            *)
(* construction paths (__init__, from_config, from_env), session rotation, *)
(* the provider-specific username formatting and the two proxy outputs.    *)
(*                                                                         *)
(* A Python str is a sequence of one-character strings, so that lower(),   *)
(* strip(), int() and the f-string interpolations are computed character   *)
(* by character.  A JSON value read from the configuration file is a       *)
(* tagged record (JStr, JInt, JBool).  Python's None is the record None.   *)
(***************************************************************************)
EXTENDS Integers, Sequences, FiniteSets, TLC

(* ------------------------------ bounds --------------------------------- *)

\* number of distinct uuid4 values the random source can produce
NumTokens == 2

(* ------------------------- Python str methods -------------------------- *)

Upper == <<"A","B","C","D","E","F","G","H","I","J","K","L","M","N","O","P","Q","R","S","T","U","V","W","X","Y","Z">>
LowerAlpha == <<"a","b","c","d","e","f","g","h","i","j","k","l","m","n","o","p","q","r","s","t","u","v","w","x","y","z">>
Whitespace == {" ", "\t", "\n", "\r"}
Digits == <<"0","1","2","3","4","5","6","7","8","9">>

IndexOf(seq, c) == CHOOSE i \in 1..Len(seq) : seq[i] = c
InSeq(seq, c) == \E i \in 1..Len(seq) : seq[i] = c

\* str.lower(), one character
LowerChar(c) == IF InSeq(Upper, c) THEN LowerAlpha[IndexOf(Upper, c)] ELSE c
\* str.lower()
lower(s) == [i \in 1..Len(s) |-> LowerChar(s[i])]

\* str.strip(): drop leading and trailing whitespace
strip(s) ==
  LET NonWs == {i \in 1..Len(s) : s[i] \notin Whitespace}
  IN IF NonWs = {} THEN << >>
     ELSE LET lo == CHOOSE i \in NonWs : \A j \in NonWs : i <= j
              hi == CHOOSE i \in NonWs : \A j \in NonWs : j <= i
          IN SubSeq(s, lo, hi)

\* str(int): decimal digits, with a sign for negatives
RECURSIVE NatStr(_)
NatStr(n) == IF n < 10 THEN <<Digits[n + 1]>>
             ELSE NatStr(n \div 10) \o <<Digits[(n % 10) + 1]>>
IntStr(n) == IF n < 0 THEN <<"-">> \o NatStr(0 - n) ELSE NatStr(n)

\* value of a sequence of decimal digits
RECURSIVE DigitsVal(_)
DigitsVal(d) == IF d = << >> THEN 0
                ELSE 10 * DigitsVal(SubSeq(d, 1, Len(d) - 1))
                     + (IndexOf(Digits, d[Len(d)]) - 1)

\* int(str): [ok |-> TRUE, n |-> value] or [ok |-> FALSE] for ValueError.
\* Surrounding whitespace is stripped, one sign is allowed, and single
\* underscores may separate digits.
int(s) ==
  LET t == strip(s)
      signed == t # << >> /\ t[1] \in {"+", "-"}
      body == IF signed THEN SubSeq(t, 2, Len(t)) ELSE t
      wellFormed ==
        /\ body # << >>
        /\ \A i \in 1..Len(body) : InSeq(Digits, body[i]) \/ body[i] = "_"
        /\ body[1] # "_" /\ body[Len(body)] # "_"
        /\ \A i \in 1..(Len(body) - 1) : ~(body[i] = "_" /\ body[i + 1] = "_")
      digits == SelectSeq(body, LAMBDA c : c # "_")
      mag == DigitsVal(digits)
  IN IF wellFormed
       THEN [ok |-> TRUE, n |-> IF signed /\ t[1] = "-" THEN 0 - mag ELSE mag]
       ELSE [ok |-> FALSE]

\* str.join(parts)
RECURSIVE join(_, _)
join(sep, parts) ==
  IF parts = << >> THEN << >>
  ELSE IF Len(parts) = 1 THEN parts[1]
  ELSE parts[1] \o sep \o join(sep, Tail(parts))

(* ------------------------------ values --------------------------------- *)

None == [none |-> TRUE]
JStr(s) == [str |-> s]
JInt(n) == [int |-> n]
JBool(b) == [bool |-> b]
IsStr(v) == DOMAIN v = {"str"}

\* Python truthiness of a JSON value (None, bool, int, str)
Truthy(v) ==
  IF v = None THEN FALSE
  ELSE IF DOMAIN v = {"bool"} THEN v.bool
  ELSE IF DOMAIN v = {"int"} THEN v.int # 0
  ELSE v.str # << >>

\* dict.get(key, default) on a JSON object [dict |-> f]
IsDict(v) == DOMAIN v = {"dict"}
get(d, key, default) == IF key \in DOMAIN d.dict THEN d.dict[key] ELSE default

\* os.getenv(name, default); the environment is a function from the names
\* of the variables that are set to their values
getenv(environ, name, default) ==
  IF name \in DOMAIN environ THEN environ[name] ELSE default

(* ------------------------- module-level table -------------------------- *)

PROVIDER_DEFAULTS ==
  (<<"b","r","i","g","h","t","d","a","t","a">> :> [host |-> <<"b","r","d",".","s","u","p","e","r","p","r","o","x","y",".","i","o">>, port |-> 22225])
  @@ (<<"i","p","r","o","y","a","l">> :> [host |-> <<"p","r","o","x","y",".","i","p","r","o","y","a","l",".","c","o","m">>, port |-> 12321])
  @@ (<<"s","t","o","r","m","p","r","o","x","i","e","s">> :> [host |-> <<"r","o","t","a","t","i","n","g",".","s","t","o","r","m","p","r","o","x","i","e","s",".","c","o","m">>, port |-> 9999])
  @@ (<<"n","e","t","n","u","t">> :> [host |-> <<"g","w","-","r","e","s","i",".","n","e","t","n","u","t",".","i","o">>, port |-> 5959])

(* ---------------------------- construction ----------------------------- *)

\* a slice that keeps 8 digits, the first group of the uuid
_generate_session_id_short(u) == SubSeq(u, 1, 8)

\* uuid.uuid4().hex[:12]; u is the 32-digit hex form of the random uuid
_generate_session_id(u) == SubSeq(u, 1, 12)

\* The result of a construction path: the instance (exc = "none") or the
\* exception that propagates to the caller.  args are the arguments
\* __init__ was called with, None when it was never called.
Raised(e, a) == [exc |-> e, self |-> None, args |-> a]

\* PROVIDER_DEFAULTS.get(provider, {}) read with .get("host", "") and
\* .get("port", 0)
Defaults(provider) ==
  IF provider \in DOMAIN PROVIDER_DEFAULTS THEN PROVIDER_DEFAULTS[provider]
  ELSE [host |-> << >>, port |-> 0]

\* a resolution that looks the provider up even when a host is supplied
ResolveHostIgnoringSupplied(host, provider) == Defaults(provider).host

\* host or defaults.get("host", "")
ResolveHost(host, provider) ==
  IF host # << >> THEN host ELSE Defaults(provider).host
\* port or defaults.get("port", 0)
ResolvePort(port, provider) ==
  IF port # 0 THEN port ELSE Defaults(provider).port

\* ProxyManager.__init__.  provider and country arrive as tagged values
\* (a configuration file can supply a non-string); the other arguments
\* are a str, an int or a bool.
__init__(a, u) ==
  IF ~IsStr(a.provider) \/ ~IsStr(a.country)
    THEN Raised("AttributeError", a)
  ELSE
    LET provider == strip(lower(a.provider.str))
    IN [exc |-> "none",
        args |-> a,
        self |-> [provider |-> provider,
                  username |-> a.username,
                  password |-> a.password,
                  country |-> strip(lower(a.country.str)),
                  sticky |-> a.sticky,
                  sticky_ttl_minutes |-> a.sticky_ttl_minutes,
                  enabled |-> a.enabled,
                  host |-> ResolveHost(a.host, provider),
                  port |-> ResolvePort(a.port, provider),
                  _session_id |-> _generate_session_id(u)]]

\* the defaults of __init__'s parameters
DefaultArgs ==
  [provider |-> JStr(<<"b","r","i","g","h","t","d","a","t","a">>), host |-> << >>, port |-> 0,
   username |-> << >>, password |-> << >>, country |-> JStr(<< >>),
   sticky |-> TRUE, sticky_ttl_minutes |-> 10, enabled |-> TRUE]

\* the test `.lower() in ("true", "1", "yes")`
EnvTruthy(s) == lower(s) \in {<<"t","r","u","e">>, <<"1">>, <<"y","e","s">>}

\* cls(enabled=False)
Disabled(u) == __init__([DefaultArgs EXCEPT !.enabled = FALSE], u)

\* the second return of from_env: every variable is read and the port and
\* the TTL are parsed, then the instance is built
EnabledFromEnv(environ, u) ==
  LET port == int(getenv(environ, "PROXY_PORT", <<"0">>))
      ttl == int(getenv(environ, "PROXY_STICKY_TTL", <<"1","0">>))
  IN IF ~port.ok \/ ~ttl.ok THEN Raised("ValueError", None)
     ELSE __init__(
       [provider |-> JStr(getenv(environ, "PROXY_PROVIDER", <<"b","r","i","g","h","t","d","a","t","a">>)),
        host |-> getenv(environ, "PROXY_HOST", << >>),
        port |-> port.n,
        username |-> getenv(environ, "PROXY_USERNAME", << >>),
        password |-> getenv(environ, "PROXY_PASSWORD", << >>),
        country |-> JStr(getenv(environ, "PROXY_COUNTRY", << >>)),
        sticky |-> EnvTruthy(getenv(environ, "PROXY_STICKY", <<"t","r","u","e">>)),
        sticky_ttl_minutes |-> ttl.n,
        enabled |-> TRUE], u)

\* a from_env that reads and parses every variable before it tests the flag
from_env_eager(environ, u) ==
  LET r == EnabledFromEnv(environ, u)
  IN IF r.exc # "none" THEN r
     ELSE IF ~EnvTruthy(getenv(environ, "PROXY_ENABLED", <<"f","a","l","s","e">>))
       THEN Disabled(u)
     ELSE r

\* ProxyManager.from_env
from_env(environ, u) ==
  IF ~EnvTruthy(getenv(environ, "PROXY_ENABLED", <<"f","a","l","s","e">>))
    THEN Disabled(u)
  ELSE EnabledFromEnv(environ, u)

\* `value or os.getenv(name, "")` for a str-valued configuration field
OrEnvStr(v, environ, name) ==
  IF v.str # << >> THEN v.str ELSE getenv(environ, name, << >>)
\* the same for a field that is passed on whatever its type
OrEnv(v, environ, name) ==
  IF Truthy(v) THEN v ELSE JStr(getenv(environ, name, << >>))

\* a handler that gives up on a load failure instead of reading the
\* environment
OnLoadFailureDisabled(environ, u) == Disabled(u)

\* the except branch of from_config: return cls.from_env()
OnLoadFailure(environ, u) == from_env(environ, u)

\* a not-enabled branch that reads the environment
NotEnabledFromEnv(environ, u) == from_env(environ, u)

\* the branch of from_config taken when the proxy section's enabled entry
\* is missing or falsy: return cls(enabled=False)
NotEnabled(environ, u) == Disabled(u)

\* ProxyManager.from_config.  c is the outcome of open() + json.load():
\* [load |-> "ok", doc |-> value] or [load |-> <exception name>].
\* The host, username and password entries of a proxy section are strings,
\* port and sticky_ttl_minutes integers and sticky a boolean; enabled,
\* provider and country are any value.
from_config(c, environ, u) ==
  IF c.load # "ok" THEN OnLoadFailure(environ, u)
  ELSE IF ~IsDict(c.doc) THEN Raised("AttributeError", None)
  ELSE
    LET proxy_cfg == get(c.doc, "proxy", [dict |-> << >>])
    IN IF ~IsDict(proxy_cfg) THEN Raised("AttributeError", None)
       ELSE IF ~Truthy(get(proxy_cfg, "enabled", JBool(FALSE)))
         THEN NotEnabled(environ, u)
       ELSE __init__(
         [provider |-> get(proxy_cfg, "provider", JStr(<<"b","r","i","g","h","t","d","a","t","a">>)),
          host |-> get(proxy_cfg, "host", JStr(<< >>)).str,
          port |-> get(proxy_cfg, "port", JInt(0)).int,
          username |-> OrEnvStr(get(proxy_cfg, "username", JStr(<< >>)),
                                environ, "PROXY_USERNAME"),
          password |-> OrEnvStr(get(proxy_cfg, "password", JStr(<< >>)),
                                environ, "PROXY_PASSWORD"),
          country |-> OrEnv(get(proxy_cfg, "country", JStr(<< >>)),
                            environ, "PROXY_COUNTRY"),
          sticky |-> get(proxy_cfg, "sticky", JBool(TRUE)).bool,
          sticky_ttl_minutes |-> get(proxy_cfg, "sticky_ttl_minutes", JInt(10)).int,
          enabled |-> TRUE], u)

(* ------------------------ formatting and outputs ----------------------- *)

\* a country segment that is emitted even when the country is empty
CountryPartAlways(self) == <<<<"c","o","u","n","t","r","y","-">> \o self.country>>

\* the optional segments shared by the three formatting providers
CountryPart(self) ==
  IF self.country # << >> THEN <<<<"c","o","u","n","t","r","y","-">> \o self.country>> ELSE << >>
SessionPart(self) ==
  IF self.sticky THEN <<<<"s","e","s","s","i","o","n","-">> \o self._session_id>> ELSE << >>
SessTimePart(self) ==
  IF self.sticky THEN <<<<"s","e","s","s","T","i","m","e","-">> \o IntStr(self.sticky_ttl_minutes)>>
  ELSE << >>

\* ProxyManager._build_proxy_username
_build_proxy_username(self) ==
  LET base == self.username
  IN IF self.provider = <<"b","r","i","g","h","t","d","a","t","a">>
       THEN join(<<"-">>, <<base>> \o CountryPart(self) \o SessionPart(self))
     ELSE IF self.provider = <<"n","e","t","n","u","t">>
       THEN join(<<"-">>, <<base>> \o CountryPart(self) \o SessionPart(self))
     ELSE IF self.provider = <<"i","p","r","o","y","a","l">>
       THEN join(<<"_">>, <<base>> \o CountryPart(self) \o SessionPart(self)
                                \o SessTimePart(self))
     ELSE IF self.provider = <<"s","t","o","r","m","p","r","o","x","i","e","s">> THEN base
     ELSE base

\* a descriptor that tests the host only
get_playwright_proxy_host_only(self) ==
  IF self.host = << >> THEN None
  ELSE [server |-> <<"h","t","t","p",":","/","/">> \o self.host \o <<":">> \o IntStr(self.port),
        username |-> _build_proxy_username(self),
        password |-> self.password]

\* ProxyManager.get_playwright_proxy
get_playwright_proxy(self) ==
  IF ~self.enabled \/ self.host = << >> THEN None
  ELSE [server |-> <<"h","t","t","p",":","/","/">> \o self.host \o <<":">> \o IntStr(self.port),
        username |-> _build_proxy_username(self),
        password |-> self.password]

\* a mapping built from the raw username
get_requests_proxy_raw_user(self) ==
  IF ~self.enabled \/ self.host = << >> THEN None
  ELSE LET url == <<"h","t","t","p",":","/","/">> \o self.username \o <<":">> \o self.password \o <<"@">>
                  \o self.host \o <<":">> \o IntStr(self.port)
       IN [http |-> url, https |-> url]

\* ProxyManager.get_requests_proxy
get_requests_proxy(self) ==
  IF ~self.enabled \/ self.host = << >> THEN None
  ELSE LET user == _build_proxy_username(self)
           url == <<"h","t","t","p",":","/","/">> \o user \o <<":">> \o self.password \o <<"@">>
                  \o self.host \o <<":">> \o IntStr(self.port)
       IN [http |-> url, https |-> url]

\* str(bool)
BoolStr(b) == IF b THEN <<"T","r","u","e">> ELSE <<"F","a","l","s","e">>

\* ProxyManager.info
info(self) ==
  IF ~self.enabled THEN <<"<","P","r","o","x","y","M","a","n","a","g","e","r"," ","d","i","s","a","b","l","e","d",">">>
  ELSE <<"<","P","r","o","x","y","M","a","n","a","g","e","r"," ","p","r","o","v","i","d","e","r","=">> \o self.provider \o <<" ","e","n","a","b","l","e","d"," ","h","o","s","t","=">>
       \o self.host \o <<":">> \o IntStr(self.port) \o <<" ","c","o","u","n","t","r","y","=">>
       \o (IF self.country # << >> THEN self.country ELSE <<"a","n","y">>)
       \o <<" ","s","t","i","c","k","y","=">> \o BoolStr(self.sticky) \o <<" ","s","e","s","s","i","o","n","=">>
       \o self._session_id \o <<">">>

(* ------------------------------- inputs -------------------------------- *)

HexDigits == <<"0","1","2","3","4","5","6","7","8","9","a","b","c","d","e","f">>

\* the hex form of the i-th uuid4 of the random source: 32 hex digits with
\* the version digit 4 and a variant digit in 8..b
UuidHex(i) ==
  [k \in 1..32 |-> IF k = 13 THEN "4"
                   ELSE IF k = 17 THEN "8"
                   ELSE HexDigits[((i * k + i - 1) % 16) + 1]]
Uuid4Hex == {UuidHex(i) : i \in 1..NumTokens}

\* an optional value: << >> (absent) or <<v>>
Opt(vals) == {<< >>} \cup {<<v>> : v \in vals}
\* the mapping that holds the present entries of a record of optionals
Pack(r) == [k \in {n \in DOMAIN r : r[n] # << >>} |-> r[k][1]]

\* arguments of direct construction
DirectArgs ==
  [provider : {JStr(<<"b","r","i","g","h","t","d","a","t","a">>), JStr(<<" ","N","e","t","N","u","t">>), JStr(<<"i","p","r","o","y","a","l">>),
               JStr(<<"s","t","o","r","m","p","r","o","x","i","e","s">>), JStr(<<"c","u","s","t","o","m">>)},
   host : {<< >>, <<"h">>},
   port : {0, 80},
   username : {<< >>, <<"u">>},
   password : {<<"p">>},
   country : {JStr(<< >>), JStr(<<"U","S"," ">>)},
   sticky : BOOLEAN,
   sticky_ttl_minutes : {15},
   enabled : BOOLEAN]

\* process environments that vary the flag and the two integer variables,
\* malformed values included
FlagEnvs ==
  {Pack(e) : e \in
    [PROXY_ENABLED : Opt({<<"T","R","U","E">>, <<"1">>, <<"Y","e","s">>, <<"n","o">>}),
     PROXY_HOST : Opt({<<"h">>}),
     PROXY_PORT : Opt({<<"8","0">>, <<"x">>}),
     PROXY_USERNAME : {<<<<"u">>>>},
     PROXY_STICKY_TTL : Opt({<<"1","5">>, <<"1","x">>})]}

\* process environments with the flag set that vary the other variables
FieldEnvs ==
  {Pack(e) : e \in
    [PROXY_ENABLED : {<<<<"t","r","u","e">>>>},
     PROXY_PROVIDER : Opt({<<"I","P","R","o","y","a","l"," ">>}),
     PROXY_HOST : Opt({<<"h">>}),
     PROXY_PORT : {<<<<"8","0">>>>},
     PROXY_USERNAME : Opt({<<"u">>}),
     PROXY_PASSWORD : Opt({<<"p">>}),
     PROXY_COUNTRY : Opt({<<" ","U","S">>}),
     PROXY_STICKY : Opt({<<"n","o">>}),
     PROXY_STICKY_TTL : Opt({<<"1","5">>})]}

Envs == FlagEnvs \cup FieldEnvs

\* environments that vary only in what from_config reads for a proxy section
CredentialEnvs ==
  {Pack(e) : e \in
    [PROXY_USERNAME : Opt({<<"u">>}),
     PROXY_PASSWORD : {<<<<"p">>>>},
     PROXY_COUNTRY : Opt({<<" ","U","S">>})]}

\* outcomes of loading the configuration file that are a failure
LoadFailures ==
  {[load |-> e] : e \in {"FileNotFoundError", "JSONDecodeError", "PermissionError"}}

Loaded(doc) == [load |-> "ok", doc |-> doc]

\* documents without a usable proxy section
OtherDocs ==
  {[dict |-> << >>],
   [dict |-> [headless |-> JBool(TRUE)]],
   [list |-> << >>],
   [dict |-> [proxy |-> [list |-> << >>]]],
   [dict |-> [proxy |-> [dict |-> << >>]]]}

\* proxy sections
ProxySections ==
  {[dict |-> Pack(r)] : r \in
    [enabled : Opt({JBool(FALSE), JBool(TRUE)}),
     provider : Opt({JStr(<<"N","e","t","N","u","t"," ">>), JStr(<<"c","u","s","t","o","m">>), JInt(5)}),
     username : Opt({JStr(<<"u">>)}),
     country : Opt({JStr(<<"U","S">>), JInt(5)}),
     sticky_ttl_minutes : Opt({JInt(15)})]}

\* (configuration, environment) pairs from_config is called under
ConfigInputs ==
  (LoadFailures \X Envs)
  \cup ({Loaded(d) : d \in OtherDocs} \X FlagEnvs)
  \cup ({Loaded([dict |-> [proxy |-> p]]) : p \in ProxySections} \X CredentialEnvs)

(* -------------------------------- state -------------------------------- *)

VARIABLES
  pc,       \* "start", "ok" (an instance exists) or "raised"
  path,     \* the construction path taken
  environ,  \* the process environment
  cfg,      \* the outcome of loading the configuration file, or None
  args,     \* the arguments __init__ was called with, or None
  self,     \* the instance's fields, or None
  exc,      \* the exception the construction raised, or "none"
  ret,      \* the last operation and the value it returned
  hist      \* token: the value the last rotate_session returned;
            \* user: the username formatted since the last rotation;
            \* again: it was formatted more than once since then

vars == <<pc, path, environ, cfg, args, self, exc, ret, hist>>

NoRet == [op |-> "none"]
NoHist == [token |-> << >>, user |-> << >>, again |-> FALSE]

Init ==
  /\ pc = "start"
  /\ path = "none"
  /\ environ = << >>
  /\ cfg = None
  /\ args = None
  /\ self = None
  /\ exc = "none"
  /\ ret = NoRet
  /\ hist = NoHist

\* the caller receives the outcome r of a construction path
Constructed(r) ==
  /\ pc' = IF r.exc = "none" THEN "ok" ELSE "raised"
  /\ exc' = r.exc
  /\ self' = r.self
  /\ args' = r.args
  /\ ret' = NoRet
  /\ hist' = NoHist

\* pm = ProxyManager(...)
New ==
  /\ pc = "start"
  /\ \E a \in DirectArgs, u \in Uuid4Hex : Constructed(__init__(a, u))
  /\ path' = "direct"
  /\ UNCHANGED <<environ, cfg>>

\* pm = ProxyManager.from_env()
FromEnv ==
  /\ pc = "start"
  /\ \E e \in Envs, u \in Uuid4Hex :
       /\ environ' = e
       /\ Constructed(from_env(e, u))
  /\ path' = "from_env"
  /\ UNCHANGED cfg

\* pm = ProxyManager.from_config()
FromConfig ==
  /\ pc = "start"
  /\ \E in \in ConfigInputs, u \in Uuid4Hex :
       /\ cfg' = in[1]
       /\ environ' = in[2]
       /\ Constructed(from_config(in[1], in[2], u))
  /\ path' = "from_config"

\* a rotation that returns a new token and keeps the old one in the instance
rotate_session_stale ==
  /\ pc = "ok"
  /\ \E u \in Uuid4Hex :
       LET sid == _generate_session_id(u)
       IN /\ ret' = [op |-> "rotate_session", val |-> sid]
          /\ hist' = [token |-> <<sid>>, user |-> << >>, again |-> FALSE]
  /\ UNCHANGED <<pc, path, environ, cfg, args, exc, self>>

\* pm.rotate_session()
rotate_session ==
  /\ pc = "ok"
  /\ \E u \in Uuid4Hex :
       LET sid == _generate_session_id(u)
       IN /\ self' = [self EXCEPT !._session_id = sid]
          /\ ret' = [op |-> "rotate_session", val |-> sid]
          /\ hist' = [token |-> <<sid>>, user |-> << >>, again |-> FALSE]
  /\ UNCHANGED <<pc, path, environ, cfg, args, exc>>

\* pm._build_proxy_username()
BuildProxyUsername ==
  /\ pc = "ok"
  /\ ret' = [op |-> "_build_proxy_username", val |-> _build_proxy_username(self)]
  /\ hist' = [hist EXCEPT !.user = <<_build_proxy_username(self)>>,
                          !.again = (hist.user # << >>)]
  /\ UNCHANGED <<pc, path, environ, cfg, args, self, exc>>

\* pm.get_playwright_proxy()
GetPlaywrightProxy ==
  /\ pc = "ok"
  /\ ret' = [op |-> "get_playwright_proxy", val |-> get_playwright_proxy(self)]
  /\ UNCHANGED <<pc, path, environ, cfg, args, self, exc, hist>>

\* pm.get_requests_proxy()
GetRequestsProxy ==
  /\ pc = "ok"
  /\ ret' = [op |-> "get_requests_proxy", val |-> get_requests_proxy(self)]
  /\ UNCHANGED <<pc, path, environ, cfg, args, self, exc, hist>>

\* pm.info()
Info ==
  /\ pc = "ok"
  /\ ret' = [op |-> "info", val |-> info(self)]
  /\ UNCHANGED <<pc, path, environ, cfg, args, self, exc, hist>>

Next ==
  \/ New
  \/ FromEnv
  \/ FromConfig
  \/ rotate_session
  \/ BuildProxyUsername
  \/ GetPlaywrightProxy
  \/ GetRequestsProxy
  \/ Info

Spec == Init /\ [][Next]_vars

(* ------------------------------- claims -------------------------------- *)

\* an instance's state, the random session id excepted
Fields(obj) == IF obj = None THEN None ELSE [obj EXCEPT !._session_id = << >>]

\* sub occurs in s as a contiguous run
IsInfix(sub, s) ==
  \E i \in 0..(Len(s) - Len(sub)) : SubSeq(s, i + 1, i + Len(sub)) = sub

Flag(e) == "PROXY_ENABLED" \in DOMAIN e
           /\ lower(e["PROXY_ENABLED"]) \in {<<"t","r","u","e">>, <<"1">>, <<"y","e","s">>}

\* C1: a disabled instance, whatever path built it and whatever its other
\* fields are, yields None from get_playwright_proxy() and from
\* get_requests_proxy(), before and after any number of rotations.
C1_DisabledYieldsNoProxy ==
  (pc = "ok" /\ ~self.enabled) =>
    /\ get_playwright_proxy(self) = None
    /\ get_requests_proxy(self) = None
    /\ (ret.op \in {"get_playwright_proxy", "get_requests_proxy"}
          => ret.val = None)

C1_Witness ==
  /\ pc = "ok" /\ ~self.enabled /\ path = "from_config"
  /\ self.host # << >> /\ self.port # 0
  /\ hist.token # << >>
  /\ ret.op = "get_requests_proxy" /\ ret.val = None

\* C2: no construction path raises: every call of the constructor, of
\* from_config and of from_env returns an instance.
C2_ConstructionNeverRaises == pc # "raised"

\* C3: when the configuration file cannot be loaded, from_config ends as
\* from_env() does under the same environment: the same fields (the session
\* id excepted), or the same exception where from_env raises.
C3_LoadFailureIsFromEnv ==
  (path = "from_config" /\ cfg.load # "ok") =>
    \A u \in Uuid4Hex :
      LET r == from_env(environ, u)
      IN /\ exc = r.exc
         /\ Fields(self) = Fields(r.self)
         /\ (pc = "ok" => self.enabled = Flag(environ))

C3_Witness ==
  /\ path = "from_config" /\ cfg.load = "FileNotFoundError"
  /\ pc = "ok" /\ self.enabled
  /\ self.provider = <<"i","p","r","o","y","a","l">> /\ self.port = 80 /\ self.host = <<"h">>
  /\ self.country = <<"u","s">> /\ self.sticky_ttl_minutes = 15

\* the file parsed to a mapping that has no proxy key
NoProxyKey ==
  /\ path = "from_config" /\ cfg.load = "ok"
  /\ IsDict(cfg.doc) /\ "proxy" \notin DOMAIN cfg.doc.dict

\* C4 as stated: a configuration without a proxy key makes from_config fall
\* back to from_env(): the instance has the state from_env() gives.
C4_MissingProxyFallsBackToEnv ==
  NoProxyKey =>
    \A u \in Uuid4Hex :
      LET r == from_env(environ, u)
      IN exc = r.exc /\ Fields(self) = Fields(r.self)

\* C4, amended: a configuration that parses to a mapping without a proxy
\* key makes from_config return the disabled default instance, whatever
\* the environment holds; its outputs are None.
C4_MissingProxyIsDisabled ==
  NoProxyKey =>
    /\ pc = "ok" /\ ~self.enabled
    /\ \A u \in Uuid4Hex :
         Fields(self) = Fields(__init__([DefaultArgs EXCEPT !.enabled = FALSE], u).self)
    /\ get_playwright_proxy(self) = None /\ get_requests_proxy(self) = None

C4_Witness ==
  /\ NoProxyKey /\ pc = "ok" /\ ~self.enabled
  /\ Flag(environ)
  /\ "PROXY_HOST" \in DOMAIN environ /\ "PROXY_USERNAME" \in DOMAIN environ
  /\ "PROXY_PORT" \in DOMAIN environ /\ environ["PROXY_PORT"] = <<"8","0">>
  /\ ret.op = "get_playwright_proxy" /\ ret.val = None

\* the username the provider table of the specification gives
TableUsername(obj) ==
  LET sep == IF obj.provider = <<"i","p","r","o","y","a","l">> THEN <<"_">> ELSE <<"-">>
      country == IF obj.country = << >> THEN << >>
                 ELSE sep \o <<"c","o","u","n","t","r","y","-">> \o obj.country
      session == IF obj.sticky THEN sep \o <<"s","e","s","s","i","o","n","-">> \o obj._session_id
                 ELSE << >>
      sessTime == IF obj.sticky /\ obj.provider = <<"i","p","r","o","y","a","l">>
                    THEN sep \o <<"s","e","s","s","T","i","m","e","-">> \o IntStr(obj.sticky_ttl_minutes)
                  ELSE << >>
  IN IF obj.provider \in {<<"b","r","i","g","h","t","d","a","t","a">>, <<"n","e","t","n","u","t">>, <<"i","p","r","o","y","a","l">>}
       THEN obj.username \o country \o session \o sessTime
     ELSE obj.username

\* C5: _build_proxy_username() equals the provider table: username, then
\* country-<cc> if a country is set, then session-<id> if sticky, joined by
\* '-' for brightdata and netnut; the same plus sessTime-<ttl> if sticky,
\* joined by '_', for iproyal; the raw username for every other provider.
\* An unset field contributes no segment and no separator.
C5_UsernameMatchesTable ==
  pc = "ok" =>
    /\ _build_proxy_username(self) = TableUsername(self)
    /\ (ret.op = "_build_proxy_username" => ret.val = TableUsername(self))
    /\ (self.provider \in {<<"b","r","i","g","h","t","d","a","t","a">>, <<"n","e","t","n","u","t">>} /\ self.username = <<"u">>
        /\ self.country = <<"u","s">> /\ self.sticky
          => _build_proxy_username(self)
               = <<"u","-","c","o","u","n","t","r","y","-","u","s","-","s","e","s","s","i","o","n","-">> \o self._session_id)
    /\ (self.provider = <<"i","p","r","o","y","a","l">> /\ self.username = <<"u">>
        /\ self.country = <<"u","s">> /\ self.sticky /\ self.sticky_ttl_minutes = 15
          => _build_proxy_username(self)
               = <<"u","_","c","o","u","n","t","r","y","-","u","s","_","s","e","s","s","i","o","n","-">> \o self._session_id \o <<"_","s","e","s","s","T","i","m","e","-","1","5">>)

C5_Witness ==
  /\ pc = "ok" /\ ret.op = "_build_proxy_username"
  /\ self.provider = <<"i","p","r","o","y","a","l">> /\ self.sticky /\ self.country = << >>
  /\ self.username = <<"u">>
  /\ ret.val = <<"u","_","s","e","s","s","i","o","n","-">> \o self._session_id \o <<"_","s","e","s","s","T","i","m","e","-","1","5">>

\* the providers whose username carries the session
Formatting(obj) == obj.provider \in {<<"b","r","i","g","h","t","d","a","t","a">>, <<"n","e","t","n","u","t">>, <<"i","p","r","o","y","a","l">>}

\* C6 as stated: after rotate_session() returned t, session_id is t, t has
\* 12 characters and the username formatted next embeds session-t.
C6_RotatedTokenEmbedded ==
  (pc = "ok" /\ hist.token # << >>) =>
    /\ self._session_id = hist.token[1]
    /\ Len(hist.token[1]) = 12
    /\ (ret.op = "rotate_session" => ret.val = self._session_id)
    /\ (ret.op = "_build_proxy_username"
          => IsInfix(<<"s","e","s","s","i","o","n","-">> \o hist.token[1], ret.val))

\* C6, amended: after rotate_session() returned t, session_id is t, t has
\* 12 characters, and the username formatted next is the one of session t:
\* it embeds session-t when the instance is sticky and its provider is
\* brightdata, netnut or iproyal, and is the raw username for a
\* stormproxies or custom provider.
C6_RotatedTokenReflected ==
  (pc = "ok" /\ hist.token # << >>) =>
    /\ self._session_id = hist.token[1]
    /\ Len(hist.token[1]) = 12
    /\ (ret.op = "rotate_session" => ret.val = self._session_id)
    /\ (ret.op = "_build_proxy_username" =>
          /\ ret.val = TableUsername([self EXCEPT !._session_id = hist.token[1]])
          /\ (self.sticky /\ Formatting(self)
                => IsInfix(<<"s","e","s","s","i","o","n","-">> \o hist.token[1], ret.val))
          /\ (~Formatting(self) => ret.val = self.username))

C6_Witness ==
  /\ pc = "ok" /\ hist.token # << >>
  /\ ret.op = "_build_proxy_username"
  /\ self.sticky /\ self.provider = <<"n","e","t","n","u","t">>
  /\ hist.token[1] # _generate_session_id(UuidHex(1))
  /\ IsInfix(<<"-","s","e","s","s","i","o","n","-">> \o hist.token[1], ret.val)

\* the two environments agree on PROXY_ENABLED
SameFlagVariable(e1, e2) ==
  /\ ("PROXY_ENABLED" \in DOMAIN e1) = ("PROXY_ENABLED" \in DOMAIN e2)
  /\ ("PROXY_ENABLED" \in DOMAIN e1 => e1["PROXY_ENABLED"] = e2["PROXY_ENABLED"])

C7_WitnessEnabled ==
  /\ path = "from_env" /\ pc = "ok" /\ self.enabled
  /\ environ["PROXY_ENABLED"] = <<"Y","e","s">>

\* the static table of the specification
TableHost(p) ==
  IF p = <<"b","r","i","g","h","t","d","a","t","a">> THEN <<"b","r","d",".","s","u","p","e","r","p","r","o","x","y",".","i","o">>
  ELSE IF p = <<"i","p","r","o","y","a","l">> THEN <<"p","r","o","x","y",".","i","p","r","o","y","a","l",".","c","o","m">>
  ELSE IF p = <<"s","t","o","r","m","p","r","o","x","i","e","s">> THEN <<"r","o","t","a","t","i","n","g",".","s","t","o","r","m","p","r","o","x","i","e","s",".","c","o","m">>
  ELSE IF p = <<"n","e","t","n","u","t">> THEN <<"g","w","-","r","e","s","i",".","n","e","t","n","u","t",".","i","o">>
  ELSE << >>
TablePort(p) ==
  IF p = <<"b","r","i","g","h","t","d","a","t","a">> THEN 22225
  ELSE IF p = <<"i","p","r","o","y","a","l">> THEN 12321
  ELSE IF p = <<"s","t","o","r","m","p","r","o","x","i","e","s">> THEN 9999
  ELSE IF p = <<"n","e","t","n","u","t">> THEN 5959
  ELSE 0
Known(p) == p \in {<<"b","r","i","g","h","t","d","a","t","a">>, <<"i","p","r","o","y","a","l">>, <<"s","t","o","r","m","p","r","o","x","i","e","s">>, <<"n","e","t","n","u","t">>}

\* C8: in every instance, host is the supplied host if non-empty, else the
\* table host of the lower-cased, trimmed provider, else empty, and port
\* likewise.  So an empty host (a zero port) occurs only in a disabled
\* instance or for a provider outside the table that was given no host
\* (no port), and a known provider without explicit host and port gets its
\* table entry.
C8_HostPortResolution ==
  pc = "ok" =>
    LET p == strip(lower(args.provider.str))
    IN /\ self.provider = p
       /\ self.host = (IF args.host # << >> THEN args.host ELSE TableHost(p))
       /\ self.port = (IF args.port # 0 THEN args.port ELSE TablePort(p))
       /\ (self.host = << >> => ~self.enabled \/ (~Known(p) /\ args.host = << >>))
       /\ (self.port = 0 => ~self.enabled \/ (~Known(p) /\ args.port = 0))
       /\ (Known(p) /\ args.host = << >> /\ args.port = 0
             => self.host = TableHost(p) /\ self.port = TablePort(p))

C8_Witness ==
  /\ pc = "ok" /\ self.enabled
  /\ args.provider = JStr(<<" ","N","e","t","N","u","t">>) /\ args.host = << >> /\ args.port = 0
  /\ self.host = <<"g","w","-","r","e","s","i",".","n","e","t","n","u","t",".","i","o">> /\ self.port = 5959

C8_WitnessSupplied ==
  /\ pc = "ok" /\ self.enabled /\ self.provider = <<"c","u","s","t","o","m">>
  /\ self.host = <<"h">> /\ self.port = 0

\* the operations that only read the instance
Readers == {"_build_proxy_username", "get_playwright_proxy",
            "get_requests_proxy", "info"}

\* C9: over any sequence of operations on one instance the session id is a
\* 12-character token; it changes only in a rotate_session step, which
\* leaves every other field as it was; every other operation leaves all
\* fields as they were, and two formatting calls with no rotation between
\* them return the same username.
C9_Step ==
  pc = "ok" =>
    /\ pc' = "ok"
    /\ Len(self'._session_id) = 12
    /\ (self'._session_id # self._session_id => ret'.op = "rotate_session")
    /\ (ret'.op = "rotate_session" => Fields(self') = Fields(self))
    /\ (ret'.op \in Readers => self' = self)
    /\ (ret'.op = "_build_proxy_username" /\ hist.user # << >>
          => ret'.val = hist.user[1])
C9_SessionFrame ==
  /\ [](pc = "ok" => self._session_id # << >> /\ Len(self._session_id) = 12)
  /\ [][C9_Step]_vars

C9_Witness ==
  /\ pc = "ok" /\ hist.again /\ hist.token # << >>
  /\ ret.op = "_build_proxy_username" /\ ret.val = hist.user[1]
  /\ self.sticky /\ self.provider = <<"b","r","i","g","h","t","d","a","t","a">>

\* C10: the two outputs are None under the same condition, not enabled or
\* host empty, and present otherwise; then the requests mapping has exactly
\* the keys http and https, both bound to
\* http://<user>:<password>@<host>:<port>, the Playwright descriptor's
\* server is http://<host>:<port>, <user> is the descriptor's username, the
\* provider-formatted username of the current session, and the passwords
\* agree.
C10_OutputsAgree ==
  pc = "ok" =>
    LET pw == get_playwright_proxy(self)
        rq == get_requests_proxy(self)
        absent == ~self.enabled \/ self.host = << >>
        hostport == self.host \o <<":">> \o IntStr(self.port)
    IN /\ (pw = None <=> absent)
       /\ (rq = None <=> absent)
       /\ (ret.op = "get_playwright_proxy" => ret.val = pw)
       /\ (ret.op = "get_requests_proxy" => ret.val = rq)
       /\ (~absent =>
             /\ DOMAIN rq = {"http", "https"}
             /\ rq.http = rq.https
             /\ DOMAIN pw = {"server", "username", "password"}
             /\ pw.server = <<"h","t","t","p",":","/","/">> \o hostport
             /\ pw.username = TableUsername(self)
             /\ pw.password = self.password
             /\ rq.http = <<"h","t","t","p",":","/","/">> \o pw.username \o <<":">> \o pw.password
                          \o <<"@">> \o hostport)
       /\ (~absent /\ self.port = 22225 /\ self.host = <<"b","r","d",".","s","u","p","e","r","p","r","o","x","y",".","i","o">>
             => pw.server = <<"h","t","t","p",":","/","/","b","r","d",".","s","u","p","e","r","p","r","o","x","y",".","i","o",":","2","2","2","2","5">>)

C10_Witness ==
  /\ pc = "ok" /\ self.enabled /\ ret.op = "get_requests_proxy"
  /\ self.provider = <<"b","r","i","g","h","t","d","a","t","a">> /\ self.sticky /\ self.country = <<"u","s">>
  /\ self.username = <<"u">> /\ self.port = 22225
  /\ ret.val.https = <<"h","t","t","p",":","/","/","u","-","c","o","u","n","t","r","y","-","u","s","-","s","e","s","s","i","o","n","-">> \o self._session_id
                     \o <<":","p","@","b","r","d",".","s","u","p","e","r","p","r","o","x","y",".","i","o",":","2","2","2","2","5">>

C10_WitnessAbsent ==
  /\ pc = "ok" /\ self.enabled /\ self.host = << >>
  /\ ret.op = "get_playwright_proxy" /\ ret.val = None

====
